---- MODULE Spec2Model ----
(***************************************************************************)
(* The stream framing of gibme-npm/ssh: StreamController                   *)
(* (stream_controller.ts, src/unnamed/part_000) and the older signal-based *)
(* SSH.stream (src/src/index.ts).  One session is modelled: the transport  *)
(* delivers chunks, the polling timer ticks, the transport closes and the  *)
(* caller aborts.  Handlers run to completion on one thread; the only      *)
(* places where other code runs inside a handler are event listeners       *)
(* (which may call abort()) and the await in the close handler.            *)
(* Three smaller specifications follow the session: PairSpec feeds both    *)
(* implementations the same events, ExecSpec is one SSH.exec call and      *)
(* ConnSpec is the SSH object's connection flag (index.ts,                 *)
(* src/unnamed/part_001).                                                  *)
(***************************************************************************)
EXTENDS Integers, Sequences, FiniteSets, TLC

\* ---------------------------------------------------------------- bounds
MaxInput == 4
MaxChunk == 2
MaxAborts == 2
MaxPolls == 2
MaxEvents == 3
MaxCalls == 2

\* Bytes the transport may deliver: LF, CR and one payload byte.
Alphabet == {10, 13, 97}

\* options.separator as the caller passes it: omitted, empty, or a one-byte
\* separator.
SeparatorOptions ==
    { [given |-> FALSE, value |-> <<>>],
      [given |-> TRUE, value |-> <<>>],
      [given |-> TRUE, value |-> <<10>>] }

Implementations == {"controller", "legacy"}

Chunks == UNION { [1..n -> Alphabet] : n \in 1..MaxChunk }

VARIABLES
    impl,          \* which implementation this session runs
    optSeparator,  \* the separator option as passed by the caller
    separator,     \* options.separator after the constructor's defaulting
    ctor,          \* "pending", "execing", "constructed", "threw", "rejected"
    timer,         \* "none", "armed", "paused", "destroyed"
    attached,      \* the close listener is attached to the transport
    piped,         \* the transport is piped into the reader
    received,      \* every byte the transport has delivered so far
    lastChunk,     \* the chunk of the latest delivery
    drained,       \* a tick handler has finished since the latest delivery
    buffer,        \* the reader's buffer
    offset,        \* the reader's read cursor
    emitted,       \* payloads of the data events, in order
    cancelled,     \* number of cancelled events emitted
    completed,     \* number of completed events emitted
    done,          \* StreamController._done
    destroyCalls,  \* number of stream.destroy() calls
    aborts,        \* number of abort() calls made
    closePc,       \* close handler: "open", "waiting", "finished"
    polls,         \* sleeps of the close handler that have returned (saturating)
    tickPc,        \* tick handler: "idle", "loop", "listener"
    delimiter,     \* the tick handler's local variable
    passEmits,     \* data events emitted by the latest tick handler run
    passBudget,    \* separator occurrences unread when that run began
    abortDepth,    \* abort() frames that are inside their cancelled listeners
    \* a StreamController and a signal-based SSH.stream fed the same events
    ctl,           \* the StreamController's state
    leg,           \* the SSH.stream session's state
    pairSeparator, \* the separator both were given
    pairInput,     \* every byte the transport has delivered to both
    pairAborts,    \* abort requests made so far
    \* one SSH.exec call
    execPc,        \* "idle", "started", "open", "closed", "failed"
    execReader,    \* the reader the channel is piped into
    execSent,      \* every byte the channel has delivered
    execError,     \* the error argument of the client.exec callback
    execCode,      \* the exit code of the close notification
    execSettles,   \* resolve / reject calls made
    execOutcome,   \* the promise: pending, resolved or rejected
    \* the SSH object's connection flag
    connected,     \* SSH._connected
    clientEvents,  \* the client's lifecycle events so far, in order
    connectCalls,  \* connect() calls made
    connectAttempts \* client.connect() calls made

sessionVars == << impl, optSeparator, separator, ctor, timer, attached, piped,
                  received, lastChunk, drained, buffer, offset, emitted,
                  cancelled, completed, done, destroyCalls, aborts, closePc,
                  polls, tickPc, delimiter, passEmits, passBudget,
                  abortDepth >>

pairVars == << ctl, leg, pairSeparator, pairInput, pairAborts >>

execVars == << execPc, execReader, execSent, execError, execCode,
               execSettles, execOutcome >>

connVars == << connected, clientEvents, connectCalls, connectAttempts >>

vars == << sessionVars, pairVars, execVars, connVars >>

\* ------------------------------------------------------- pure operators

DefaultSeparator == <<13, 10>>

\* options.separator ??= '\r\n'
Coalesce(opt) == IF opt.given THEN opt.value ELSE DefaultSeparator

\* if (this.options.separator.length === 0) throw ...
SeparatorNeverEmpty(sep) == FALSE
SeparatorIsEmpty(sep) == Len(sep) = 0

\* if (options.separator.length === 0) throw ...   (legacy SSH.stream)
LegacySeparatorIsEmpty(sep) == Len(sep) = 0

\* Buffer.indexOf(sep, 0): offset of the first occurrence, -1 if none.
IndexOf(buf, sep) ==
    LET hits == { i \in 0..(Len(buf) - Len(sep)) :
                    SubSeq(buf, i + 1, i + Len(sep)) = sep }
    IN IF hits = {} THEN -1
       ELSE CHOOSE i \in hits : \A j \in hits : i <= j

\* Number of places where sep occurs in buf.
Occurrences(buf, sep) ==
    Cardinality({ i \in 0..(Len(buf) - Len(sep)) :
                    SubSeq(buf, i + 1, i + Len(sep)) = sep })

\* reader.unreadBuffer
UnreadBuffer(buf, off) == SubSeq(buf, off + 1, Len(buf))

\* reader.unreadBytes
UnreadBytes(buf, off) == IF off >= Len(buf) THEN 0 ELSE Len(buf) - off

\* private get delimiter
DelimiterOrZero(buf, off, sep) ==
    IF IndexOf(UnreadBuffer(buf, off), sep) < 0
    THEN 0 ELSE IndexOf(UnreadBuffer(buf, off), sep)
Delimiter(buf, off, sep) == IndexOf(UnreadBuffer(buf, off), sep)

\* reader.bytes(n): the bytes returned
ReaderBytes(buf, off, n) == SubSeq(buf, off + 1, off + n)

\* reader.skip(n): the new read cursor
ReaderSkip(off, n) == off + n

\* this.options.separator?.length, the argument of reader.skip
SeparatorLengthOne(sep) == 1
SeparatorLength(sep) == Len(sep)

\* stream.pipe(reader): a chunk is appended to the reader's buffer
PipeReplacing(buf, chunk) == chunk
Pipe(buf, chunk) == buf \o chunk

\* Timer.stop / start / destroy
TimerStop(t) == IF t = "destroyed" THEN t ELSE "paused"
TimerStartRearming(t) == "armed"
TimerStart(t) == IF t = "destroyed" THEN t ELSE "armed"
TimerDestroy(t) == "destroyed"

\* tick handler, first statement: this.timer.stop()
TickStopOmitted(t) == t
TickStop(t) == TimerStop(t)

\* while (delimiter >= 0 && !this.timer.destroyed)
LoopConditionPositive(d, t) == d > 0 /\ t # "destroyed"
LoopConditionIgnoringDestroyed(d, t) == d >= 0
LoopCondition(d, t) == d >= 0 /\ t # "destroyed"

\* while (this.reader.unreadBytes > 0 && !this.timer.destroyed)
WaitConditionIgnoringDestroyed(n, t) == n > 0
WaitCondition(n, t) == n > 0 /\ t # "destroyed"

\* if (this.timer.destroyed && !this.done)   (evaluated after cleanup())
CompletedCondition(t, d) == t = "destroyed" /\ ~d

\* cleanup(): this._done = true
CleanupKeepsDone(d) == d
CleanupDone(d) == TRUE

\* if (!this.timer.destroyed && !this.done)
AbortEmitsAlways(t, d) == TRUE
AbortEmitsWhenDone(t, d) == t # "destroyed" /\ d
AbortEmits(t, d) == t # "destroyed" /\ ~d

\* The data payloads of one tick handler run to its end: the loop of
\* timer.on('tick') on a reader holding buf with its cursor at off.
RECURSIVE DrainPass(_, _, _, _)
DrainPass(buf, off, sep, out) ==
    LET d == Delimiter(buf, off, sep)
    IN IF d >= 0
       THEN DrainPass(buf,
                      ReaderSkip(ReaderSkip(off, d), SeparatorLength(sep)),
                      sep, Append(out, ReaderBytes(buf, off, d)))
       ELSE out

\* What a controller emits when the whole input arrives as one chunk and a
\* tick runs after it.
OneChunkOutput(input, sep) == DrainPass(Pipe(<<>>, input), 0, sep, <<>>)

IsController == impl = "controller"
IsLegacy == impl = "legacy"

\* No handler is on the stack.
Idle == tickPc = "idle" /\ abortDepth = 0

\* ------------------------------------------------------------------ Init

\* Fields of a session before construction.
SessionFields ==
    /\ separator = <<>>
    /\ ctor = "pending"
    /\ timer = "none"
    /\ attached = FALSE
    /\ piped = FALSE
    /\ received = <<>>
    /\ lastChunk = <<>>
    /\ drained = FALSE
    /\ buffer = <<>>
    /\ offset = 0
    /\ emitted = <<>>
    /\ cancelled = 0
    /\ completed = 0
    /\ done = FALSE
    /\ destroyCalls = 0
    /\ aborts = 0
    /\ closePc = "open"
    /\ polls = 0
    /\ tickPc = "idle"
    /\ delimiter = -1
    /\ passEmits = 0
    /\ passBudget = 0
    /\ abortDepth = 0

\* The session is not the subject: it stays unconstructed.
SessionParked ==
    /\ impl = "controller"
    /\ optSeparator = [given |-> FALSE, value |-> <<>>]
    /\ SessionFields

\* A stream in the state its constructor leaves it in.  events is the log of
\* what it emitted; done is StreamController._done; signalled is the
\* AbortSignal's aborted flag (SSH.stream).
StreamStart ==
    [ timer |-> "armed", buffer |-> <<>>, offset |-> 0,
      events |-> <<>>, done |-> FALSE, closePc |-> "open",
      tickPc |-> "idle", delimiter |-> -1, abortDepth |-> 0,
      signalled |-> FALSE ]

\* The pair of streams is not the subject.
PairParked ==
    /\ ctl = StreamStart
    /\ leg = StreamStart
    /\ pairSeparator = DefaultSeparator
    /\ pairInput = <<>>
    /\ pairAborts = 0

\* The promise of SSH.exec before anything settles it.
Pending == [kind |-> "pending", error |-> "none", bytes |-> <<>>]

\* No SSH.exec call has been made.
ExecStart ==
    /\ execPc = "idle"
    /\ execReader = <<>>
    /\ execSent = <<>>
    /\ execError = "none"
    /\ execCode = 0
    /\ execSettles = 0
    /\ execOutcome = Pending

\* new SSH(config): private _connected = false
ConnStart ==
    /\ connected = FALSE
    /\ clientEvents = <<>>
    /\ connectCalls = 0
    /\ connectAttempts = 0

Init ==
    /\ impl \in Implementations
    /\ optSeparator \in SeparatorOptions
    /\ SessionFields
    /\ PairParked
    /\ ExecStart
    /\ ConnStart

\* ---------------------------------------------------------- construction

\* new StreamController(stream, options)
Construct ==
    /\ IsController
    /\ ctor = "pending"
    /\ separator' = Coalesce(optSeparator)
    /\ IF SeparatorIsEmpty(separator')
       THEN /\ ctor' = "threw"
            /\ UNCHANGED << timer, attached, piped >>
       ELSE /\ ctor' = "constructed"
            /\ timer' = "armed"
            /\ attached' = TRUE
            /\ piped' = TRUE
    /\ UNCHANGED << impl, optSeparator, received, lastChunk, drained, buffer,
                    offset, emitted, cancelled, completed, done,
                    destroyCalls, aborts, closePc, polls, tickPc, delimiter,
                    abortDepth,
                    passEmits, passBudget,
                    pairVars, execVars, connVars >>

\* SSH.stream(command, options) up to client.exec(...)
LegacyStream ==
    /\ IsLegacy
    /\ ctor = "pending"
    /\ separator' = Coalesce(optSeparator)
    /\ IF LegacySeparatorIsEmpty(separator')
       THEN /\ ctor' = "threw"
            /\ UNCHANGED timer
       ELSE /\ ctor' = "execing"
            /\ timer' = "armed"
    /\ UNCHANGED << impl, optSeparator, attached, piped, received, lastChunk,
                    drained, buffer, offset, emitted, cancelled, completed,
                    done, destroyCalls, aborts, closePc, polls, tickPc,
                    delimiter, abortDepth,
                    passEmits, passBudget,
                    pairVars, execVars, connVars >>

\* the client.exec callback of SSH.stream
LegacyExecCallback(error) ==
    /\ IsLegacy
    /\ ctor = "execing"
    /\ Idle
    /\ IF error
       THEN /\ timer' = TimerDestroy(timer)
            /\ ctor' = "rejected"
            /\ UNCHANGED << attached, piped >>
       ELSE /\ ctor' = "constructed"
            /\ attached' = TRUE
            /\ piped' = TRUE
            /\ UNCHANGED timer
    /\ UNCHANGED << impl, optSeparator, separator, received, lastChunk,
                    drained, buffer, offset, emitted, cancelled, completed,
                    done, destroyCalls, aborts, closePc, polls, tickPc,
                    delimiter, abortDepth,
                    passEmits, passBudget,
                    pairVars, execVars, connVars >>

\* ------------------------------------------------------------- transport

\* The transport delivers a chunk; the pipe writes it into the reader.
Deliver(chunk) ==
    /\ piped
    /\ Idle
    /\ closePc = "open"
    /\ Len(received) + Len(chunk) <= MaxInput
    /\ received' = received \o chunk
    /\ lastChunk' = chunk
    /\ drained' = FALSE
    /\ buffer' = Pipe(buffer, chunk)
    /\ UNCHANGED << impl, optSeparator, separator, ctor, timer, attached,
                    piped, offset, emitted, cancelled, completed, done,
                    destroyCalls, aborts, closePc, polls, tickPc, delimiter,
                    abortDepth,
                    passEmits, passBudget,
                    pairVars, execVars, connVars >>

\* ------------------------------------------------------------ tick handler

\* timer.on('tick'): this.timer.stop(); let delimiter = this.delimiter
TickBegin ==
    /\ timer = "armed"
    /\ Idle
    /\ timer' = TickStop(timer)
    /\ delimiter' = Delimiter(buffer, offset, separator)
    /\ tickPc' = "loop"
    /\ passEmits' = 0
    /\ passBudget' = Occurrences(UnreadBuffer(buffer, offset), separator)
    /\ UNCHANGED << impl, optSeparator, separator, ctor, attached, piped,
                    received, lastChunk, drained, buffer, offset, emitted,
                    cancelled, completed, done, destroyCalls, aborts,
                    closePc, polls, abortDepth,
                    pairVars, execVars, connVars >>

\* loop body, first statement: this.emit('data', this.reader.bytes(delimiter))
TickEmit ==
    /\ tickPc = "loop"
    /\ LoopCondition(delimiter, timer)
    /\ emitted' = Append(emitted, ReaderBytes(buffer, offset, delimiter))
    /\ offset' = ReaderSkip(offset, delimiter)
    /\ tickPc' = "listener"
    /\ passEmits' = passEmits + 1
    /\ UNCHANGED << passBudget, impl, optSeparator, separator, ctor, timer,
                    attached,
                    piped, received, lastChunk, drained, buffer, cancelled,
                    completed, done, destroyCalls, aborts, closePc, polls,
                    delimiter, abortDepth,
                    pairVars, execVars, connVars >>

\* the data listeners return: reader.skip(separator.length); delimiter = ...
TickSkip ==
    /\ tickPc = "listener"
    /\ abortDepth = 0
    /\ offset' = ReaderSkip(offset, SeparatorLength(separator))
    /\ delimiter' = Delimiter(buffer, offset', separator)
    /\ tickPc' = "loop"
    /\ UNCHANGED << impl, optSeparator, separator, ctor, timer, attached,
                    piped, received, lastChunk, drained, buffer, emitted,
                    cancelled, completed, done, destroyCalls, aborts,
                    closePc, polls, abortDepth,
                    passEmits, passBudget,
                    pairVars, execVars, connVars >>

\* loop exit: this.timer.start()
TickEnd ==
    /\ tickPc = "loop"
    /\ ~LoopCondition(delimiter, timer)
    /\ timer' = TimerStart(timer)
    /\ delimiter' = -1
    /\ tickPc' = "idle"
    /\ drained' = TRUE
    /\ UNCHANGED << impl, optSeparator, separator, ctor, attached, piped,
                    received, lastChunk, buffer, offset, emitted, cancelled,
                    completed, done, destroyCalls, aborts, closePc, polls,
                    abortDepth,
                    passEmits, passBudget,
                    pairVars, execVars, connVars >>

\* ------------------------------------------------------------------ abort

\* Caller code is running: between callbacks, or inside a listener.
CallerRuns == tickPc # "loop"

\* abort(): the guard and the emit; the call is then inside its cancelled
\* listeners (AbortReturn), or, with nothing to emit, runs cleanup() at once.
AbortCall ==
    /\ IsController
    /\ ctor = "constructed"
    /\ CallerRuns
    /\ aborts < MaxAborts
    /\ aborts' = aborts + 1
    /\ IF AbortEmits(timer, done)
       THEN /\ cancelled' = cancelled + 1
            /\ abortDepth' = abortDepth + 1
            /\ UNCHANGED << done, timer, destroyCalls >>
       ELSE /\ done' = CleanupDone(done)
            /\ timer' = TimerDestroy(timer)
            /\ destroyCalls' = destroyCalls + 1
            /\ UNCHANGED << cancelled, abortDepth >>
    /\ UNCHANGED << impl, optSeparator, separator, ctor, attached, piped,
                    received, lastChunk, drained, buffer, offset, emitted,
                    completed, closePc, polls, tickPc, delimiter,
                    passEmits, passBudget,
                    pairVars, execVars, connVars >>

\* the cancelled listeners return: return this.cleanup()
AbortReturn ==
    /\ IsController
    /\ abortDepth > 0
    /\ abortDepth' = abortDepth - 1
    /\ done' = CleanupDone(done)
    /\ timer' = TimerDestroy(timer)
    /\ destroyCalls' = destroyCalls + 1
    /\ UNCHANGED << impl, optSeparator, separator, ctor, attached, piped,
                    received, lastChunk, drained, buffer, offset, emitted,
                    cancelled, completed, aborts, closePc, polls, tickPc,
                    delimiter,
                    passEmits, passBudget,
                    pairVars, execVars, connVars >>

\* options.signal 'abort' listener of SSH.stream (an AbortSignal fires once)
LegacyAbort ==
    /\ IsLegacy
    /\ ctor = "constructed"
    /\ CallerRuns
    /\ aborts = 0
    /\ aborts' = aborts + 1
    /\ cancelled' = IF timer # "destroyed" THEN cancelled + 1 ELSE cancelled
    /\ timer' = TimerDestroy(timer)
    /\ destroyCalls' = destroyCalls + 1
    /\ UNCHANGED << impl, optSeparator, separator, ctor, attached, piped,
                    received, lastChunk, drained, buffer, offset, emitted,
                    completed, done, closePc, polls, tickPc, delimiter,
                    abortDepth,
                    passEmits, passBudget,
                    pairVars, execVars, connVars >>

\* ----------------------------------------------------------- close handler

\* stream.on('close'), from its start or from a finished sleep, up to the
\* next await or to its end.
CloseBody ==
    /\ IF WaitCondition(UnreadBytes(buffer, offset), timer)
       THEN /\ closePc' = "waiting"
            /\ UNCHANGED << done, timer, destroyCalls, completed >>
       ELSE /\ closePc' = "finished"
            /\ done' = CleanupDone(done)
            /\ timer' = TimerDestroy(timer)
            /\ destroyCalls' = destroyCalls + 1
            /\ completed' = IF CompletedCondition(timer', done')
                            THEN completed + 1 ELSE completed
    /\ UNCHANGED << impl, optSeparator, separator, ctor, attached, piped,
                    received, lastChunk, drained, buffer, offset, emitted,
                    cancelled, aborts, tickPc, delimiter, abortDepth,
                    passEmits, passBudget,
                    pairVars, execVars, connVars >>

\* the same handler in SSH.stream: stream_complete is emitted before cleanup()
LegacyCloseBody ==
    /\ IF WaitCondition(UnreadBytes(buffer, offset), timer)
       THEN /\ closePc' = "waiting"
            /\ UNCHANGED << timer, destroyCalls, completed >>
       ELSE /\ closePc' = "finished"
            /\ completed' = IF timer # "destroyed"
                            THEN completed + 1 ELSE completed
            /\ timer' = TimerDestroy(timer)
            /\ destroyCalls' = destroyCalls + 1
    /\ UNCHANGED << impl, optSeparator, separator, ctor, attached, piped,
                    received, lastChunk, drained, buffer, offset, emitted,
                    cancelled, done, aborts, tickPc, delimiter, abortDepth,
                    passEmits, passBudget,
                    pairVars, execVars, connVars >>

\* The transport's close notification.
Close ==
    /\ attached
    /\ Idle
    /\ closePc = "open"
    /\ polls' = polls
    /\ IF IsController THEN CloseBody ELSE LegacyCloseBody

\* await sleep(loopInterval) returns.
CloseResume ==
    /\ Idle
    /\ closePc = "waiting"
    /\ polls' = IF polls < MaxPolls THEN polls + 1 ELSE polls
    /\ IF IsController THEN CloseBody ELSE LegacyCloseBody

\* ------------------------------------------------------------------- spec

Next ==
    \/ Construct
    \/ LegacyStream
    \/ \E error \in BOOLEAN : LegacyExecCallback(error)
    \/ \E chunk \in Chunks : Deliver(chunk)
    \/ TickBegin
    \/ TickEmit
    \/ TickSkip
    \/ TickEnd
    \/ AbortCall
    \/ AbortReturn
    \/ LegacyAbort
    \/ Close
    \/ CloseResume

Spec == Init /\ [][Next]_vars

\* The same session when the caller never aborts.  The timer fires, listeners
\* return and a sleep ends: the handlers' steps are weakly fair.
NextNoAbort ==
    \/ Construct
    \/ LegacyStream
    \/ \E error \in BOOLEAN : LegacyExecCallback(error)
    \/ \E chunk \in Chunks : Deliver(chunk)
    \/ TickBegin
    \/ TickEmit
    \/ TickSkip
    \/ TickEnd
    \/ Close
    \/ CloseResume

FairSpec ==
    /\ Init
    /\ [][NextNoAbort]_vars
    /\ WF_vars(TickBegin)
    /\ WF_vars(TickEmit)
    /\ WF_vars(TickSkip)
    /\ WF_vars(TickEnd)
    /\ WF_vars(CloseResume)

\* ------------------------------------ the two implementations side by side
\* A StreamController (ctl) and a signal-based SSH.stream session (leg), both
\* constructed with the same separator, receive the same deliveries, timer
\* ticks, close notification and abort requests.  Each handler is a function
\* of the stream's state; events is the log of what the stream emitted.

PairSeparators == {DefaultSeparator, <<10>>}

Event(name, payload) == [name |-> name, payload |-> payload]

\* No handler of stream r is on the stack.
StreamIdle(r) == r.tickPc = "idle" /\ r.abortDepth = 0

\* ---- StreamController (stream_controller.ts)

\* stream.pipe(this.reader)
CtlDeliver(r, chunk) == [r EXCEPT !.buffer = Pipe(@, chunk)]

\* this.timer.stop(); let delimiter = this.delimiter
CtlTickBegin(r, sep) ==
    [r EXCEPT !.timer = TickStop(@),
              !.delimiter = Delimiter(r.buffer, r.offset, sep),
              !.tickPc = "loop"]

\* this.emit('data', this.reader.bytes(delimiter))
CtlTickEmit(r) ==
    [r EXCEPT !.events = Append(@, Event("data",
                             ReaderBytes(r.buffer, r.offset, r.delimiter))),
              !.offset = ReaderSkip(@, r.delimiter),
              !.tickPc = "listener"]

\* this.reader.skip(this.options.separator?.length); delimiter = ...
CtlTickSkip(r, sep) ==
    LET off == ReaderSkip(r.offset, SeparatorLength(sep))
    IN [r EXCEPT !.offset = off,
                 !.delimiter = Delimiter(r.buffer, off, sep),
                 !.tickPc = "loop"]

\* this.timer.start()
CtlTickEnd(r) ==
    [r EXCEPT !.timer = TimerStart(@), !.delimiter = -1, !.tickPc = "idle"]

\* private cleanup()
CtlCleanup(r) ==
    [r EXCEPT !.done = CleanupDone(@), !.timer = TimerDestroy(@)]

\* abort(), up to its cancelled listeners
CtlAbortCall(r) ==
    IF AbortEmits(r.timer, r.done)
    THEN [r EXCEPT !.events = Append(@, Event("cancelled", <<>>)),
                   !.abortDepth = @ + 1]
    ELSE CtlCleanup(r)

\* abort(), after its cancelled listeners: return this.cleanup()
CtlAbortReturn(r) == CtlCleanup([r EXCEPT !.abortDepth = @ - 1])

\* stream.on('close'), up to the next await or to its end
CtlClose(r) ==
    IF WaitCondition(UnreadBytes(r.buffer, r.offset), r.timer)
    THEN [r EXCEPT !.closePc = "waiting"]
    ELSE LET c == CtlCleanup(r)
         IN [c EXCEPT !.closePc = "finished",
                      !.events = IF CompletedCondition(c.timer, c.done)
                                 THEN Append(@, Event("completed", <<>>))
                                 ELSE @]

\* ---- SSH.stream (src/src/index.ts)

\* stream.pipe(reader)
LegDeliver(r, chunk) == [r EXCEPT !.buffer = r.buffer \o chunk]

\* timer.stop(); let delimiter = reader.unreadBuffer.indexOf(separator, 0)
LegTickBegin(r, sep) ==
    [r EXCEPT !.timer = TimerStop(@),
              !.delimiter = IndexOf(UnreadBuffer(r.buffer, r.offset), sep),
              !.tickPc = "loop"]

\* while (delimiter >= 0 && !timer.destroyed)
LegLoopCondition(d, t) == d >= 0 /\ t # "destroyed"

\* this.emit('stream', reader.bytes(delimiter))
LegTickEmit(r) ==
    [r EXCEPT !.events = Append(@, Event("stream",
                             ReaderBytes(r.buffer, r.offset, r.delimiter))),
              !.offset = ReaderSkip(@, r.delimiter),
              !.tickPc = "listener"]

\* reader.skip(options.separator?.length); delimiter = ...indexOf(...)
LegTickSkip(r, sep) ==
    LET off == ReaderSkip(r.offset, Len(sep))
    IN [r EXCEPT !.offset = off,
                 !.delimiter = IndexOf(UnreadBuffer(r.buffer, off), sep),
                 !.tickPc = "loop"]

\* timer.start()
LegTickEnd(r) ==
    [r EXCEPT !.timer = TimerStart(@), !.delimiter = -1, !.tickPc = "idle"]

\* const cleanup = () => { timer.destroy(); stream.destroy(); }
LegCleanup(r) == [r EXCEPT !.timer = TimerDestroy(@)]

\* while (reader.unreadBytes > 0 && !timer.destroyed)
LegWaitCondition(n, t) == n > 0 /\ t # "destroyed"

\* the signal's 'abort' listener, up to the stream_cancelled listeners; an
\* AbortSignal dispatches 'abort' once, later abort requests do nothing
LegSignal(r) ==
    IF r.signalled THEN r
    ELSE IF r.timer # "destroyed"
         THEN [r EXCEPT !.signalled = TRUE,
                        !.events = Append(@, Event("stream_cancelled", <<>>)),
                        !.abortDepth = 1]
         ELSE LegCleanup([r EXCEPT !.signalled = TRUE])

\* the 'abort' listener after the stream_cancelled listeners: cleanup()
LegSignalReturn(r) == LegCleanup([r EXCEPT !.abortDepth = 0])

\* stream.on('close'), up to the next await or to its end
LegClose(r) ==
    IF LegWaitCondition(UnreadBytes(r.buffer, r.offset), r.timer)
    THEN [r EXCEPT !.closePc = "waiting"]
    ELSE LegCleanup(
           [r EXCEPT !.closePc = "finished",
                     !.events = IF r.timer # "destroyed"
                                THEN Append(@, Event("stream_complete", <<>>))
                                ELSE @])

\* ---- when each event can reach a stream

CanDeliver(r) == StreamIdle(r) /\ r.closePc = "open"
CanTickBegin(r) == StreamIdle(r) /\ r.timer = "armed"
CtlCanTickEmit(r) == r.tickPc = "loop" /\ LoopCondition(r.delimiter, r.timer)
LegCanTickEmit(r) ==
    r.tickPc = "loop" /\ LegLoopCondition(r.delimiter, r.timer)
CanTickSkip(r) == r.tickPc = "listener" /\ r.abortDepth = 0
CtlCanTickEnd(r) == r.tickPc = "loop" /\ ~LoopCondition(r.delimiter, r.timer)
LegCanTickEnd(r) ==
    r.tickPc = "loop" /\ ~LegLoopCondition(r.delimiter, r.timer)
CanAbort(r) == r.tickPc # "loop"
CanAbortReturn(r) == r.abortDepth > 0
CanClose(r) == StreamIdle(r) /\ r.closePc = "open"
CanCloseResume(r) == StreamIdle(r) /\ r.closePc = "waiting"

PairInit ==
    /\ ctl = StreamStart
    /\ leg = StreamStart
    /\ pairSeparator \in PairSeparators
    /\ pairInput = <<>>
    /\ pairAborts = 0
    /\ SessionParked
    /\ ExecStart
    /\ ConnStart

PairRest == UNCHANGED << sessionVars, execVars, connVars, pairSeparator >>

\* The transport delivers the same chunk to both.
PairDeliver(chunk) ==
    /\ CanDeliver(ctl) \/ CanDeliver(leg)
    /\ Len(pairInput) + Len(chunk) <= MaxInput
    /\ pairInput' = pairInput \o chunk
    /\ ctl' = IF CanDeliver(ctl) THEN CtlDeliver(ctl, chunk) ELSE ctl
    /\ leg' = IF CanDeliver(leg) THEN LegDeliver(leg, chunk) ELSE leg
    /\ UNCHANGED pairAborts
    /\ PairRest

\* Both timers fire.
PairTickBegin ==
    /\ CanTickBegin(ctl) \/ CanTickBegin(leg)
    /\ ctl' = IF CanTickBegin(ctl) THEN CtlTickBegin(ctl, pairSeparator)
              ELSE ctl
    /\ leg' = IF CanTickBegin(leg) THEN LegTickBegin(leg, pairSeparator)
              ELSE leg
    /\ UNCHANGED << pairInput, pairAborts >>
    /\ PairRest

PairTickEmit ==
    /\ CtlCanTickEmit(ctl) \/ LegCanTickEmit(leg)
    /\ ctl' = IF CtlCanTickEmit(ctl) THEN CtlTickEmit(ctl) ELSE ctl
    /\ leg' = IF LegCanTickEmit(leg) THEN LegTickEmit(leg) ELSE leg
    /\ UNCHANGED << pairInput, pairAborts >>
    /\ PairRest

PairTickSkip ==
    /\ CanTickSkip(ctl) \/ CanTickSkip(leg)
    /\ ctl' = IF CanTickSkip(ctl) THEN CtlTickSkip(ctl, pairSeparator)
              ELSE ctl
    /\ leg' = IF CanTickSkip(leg) THEN LegTickSkip(leg, pairSeparator)
              ELSE leg
    /\ UNCHANGED << pairInput, pairAborts >>
    /\ PairRest

PairTickEnd ==
    /\ CtlCanTickEnd(ctl) \/ LegCanTickEnd(leg)
    /\ ctl' = IF CtlCanTickEnd(ctl) THEN CtlTickEnd(ctl) ELSE ctl
    /\ leg' = IF LegCanTickEnd(leg) THEN LegTickEnd(leg) ELSE leg
    /\ UNCHANGED << pairInput, pairAborts >>
    /\ PairRest

\* The caller requests an abort: controller.abort() / abortController.abort()
PairAbort ==
    /\ CanAbort(ctl) \/ CanAbort(leg)
    /\ pairAborts < MaxAborts
    /\ pairAborts' = pairAborts + 1
    /\ ctl' = IF CanAbort(ctl) THEN CtlAbortCall(ctl) ELSE ctl
    /\ leg' = IF CanAbort(leg) THEN LegSignal(leg) ELSE leg
    /\ UNCHANGED pairInput
    /\ PairRest

\* The listeners of the innermost cancellation event return.
PairAbortReturn ==
    /\ CanAbortReturn(ctl) \/ CanAbortReturn(leg)
    /\ ctl' = IF CanAbortReturn(ctl) THEN CtlAbortReturn(ctl) ELSE ctl
    /\ leg' = IF CanAbortReturn(leg) THEN LegSignalReturn(leg) ELSE leg
    /\ UNCHANGED << pairInput, pairAborts >>
    /\ PairRest

\* The transport's close notification reaches both.
PairClose ==
    /\ CanClose(ctl) \/ CanClose(leg)
    /\ ctl' = IF CanClose(ctl) THEN CtlClose(ctl) ELSE ctl
    /\ leg' = IF CanClose(leg) THEN LegClose(leg) ELSE leg
    /\ UNCHANGED << pairInput, pairAborts >>
    /\ PairRest

\* The sleeps of both close handlers return.
PairCloseResume ==
    /\ CanCloseResume(ctl) \/ CanCloseResume(leg)
    /\ ctl' = IF CanCloseResume(ctl) THEN CtlClose(ctl) ELSE ctl
    /\ leg' = IF CanCloseResume(leg) THEN LegClose(leg) ELSE leg
    /\ UNCHANGED << pairInput, pairAborts >>
    /\ PairRest

PairNext ==
    \/ \E chunk \in Chunks : PairDeliver(chunk)
    \/ PairTickBegin
    \/ PairTickEmit
    \/ PairTickSkip
    \/ PairTickEnd
    \/ PairAbort
    \/ PairAbortReturn
    \/ PairClose
    \/ PairCloseResume

PairSpec == PairInit /\ [][PairNext]_vars

\* ---------------------------------------------------------------- SSH.exec
\* One call of SSH.exec(command) (index.ts): the promise, the client.exec
\* callback, the channel's data piped into a reader, and the channel's close.

\* The error argument of the client.exec callback: none, or why the command
\* could not be started.
ExecErrors == {"none", "channel open failure", "not connected"}

\* The exit code passed to the close listener (code: number).
ExitCodes == {0, 1, 2}

Resolved(bytes) == [kind |-> "resolved", error |-> "none", bytes |-> bytes]

Rejected(error) == [kind |-> "rejected", error |-> error, bytes |-> <<>>]

\* resolve(...) / reject(...) on a promise: only the first call settles it.
Settle(promise, outcome) ==
    IF promise.kind = "pending" THEN outcome ELSE promise

\* if (error) return reject(error)
ExecFailed(error) == error # "none"

\* if (code !== 0)
ExecRejectsCodeAboveOne(code) == code > 1
ExecRejectsCode(code) == code # 0

\* new Error(`Code: ${code}  Signal: ${signal}`)
ExitError == "exit code"

ExecInit ==
    /\ ExecStart
    /\ SessionParked
    /\ PairParked
    /\ ConnStart

ExecRest == UNCHANGED << sessionVars, pairVars, connVars >>

\* exec(command): new Promise, new Reader(), this.client.exec(command, ...)
ExecCall ==
    /\ execPc = "idle"
    /\ execPc' = "started"
    /\ UNCHANGED << execReader, execSent, execError, execCode, execSettles,
                    execOutcome >>
    /\ ExecRest

\* the client.exec callback
ExecCallback(error) ==
    /\ execPc = "started"
    /\ execError' = error
    /\ IF ExecFailed(error)
       THEN /\ execPc' = "failed"
            /\ execOutcome' = Settle(execOutcome, Rejected(error))
            /\ execSettles' = execSettles + 1
       ELSE /\ execPc' = "open"
            /\ UNCHANGED << execOutcome, execSettles >>
    /\ UNCHANGED << execReader, execSent, execCode >>
    /\ ExecRest

\* The channel delivers a chunk; stream.pipe(reader) writes it to the reader.
ExecData(chunk) ==
    /\ execPc = "open"
    /\ Len(execSent) + Len(chunk) <= MaxInput
    /\ execSent' = execSent \o chunk
    /\ execReader' = Pipe(execReader, chunk)
    /\ UNCHANGED << execPc, execError, execCode, execSettles, execOutcome >>
    /\ ExecRest

\* stream.once('close', (code, signal) => ...)
ExecClose(code) ==
    /\ execPc = "open"
    /\ execPc' = "closed"
    /\ execCode' = code
    /\ execOutcome' =
         IF ExecRejectsCode(code)
         THEN Settle(execOutcome, Rejected(ExitError))
         ELSE Settle(execOutcome, Resolved(UnreadBuffer(execReader, 0)))
    /\ execSettles' = execSettles + 1
    /\ UNCHANGED << execReader, execSent, execError >>
    /\ ExecRest

ExecNext ==
    \/ ExecCall
    \/ \E error \in ExecErrors : ExecCallback(error)
    \/ \E chunk \in Chunks : ExecData(chunk)
    \/ \E code \in ExitCodes : ExecClose(code)

ExecSpec == ExecInit /\ [][ExecNext]_vars

\* ------------------------------------------------------ the connection flag
\* The SSH object (index.ts): the client's lifecycle events as the
\* constructor's listeners handle them, and connect().

ClientEventNames == {"ready", "close", "end", "timeout", "error", "banner"}

\* this._connected after the constructor's listener for the event has run
ConnectedAfterKeptOnEnd(flag, event) ==
    CASE event = "ready" -> TRUE
      [] event \in {"close", "timeout"} -> FALSE
      [] OTHER -> flag
ConnectedAfter(flag, event) ==
    CASE event = "ready" -> TRUE
      [] event = "close" -> FALSE
      [] event = "end" -> FALSE
      [] event = "timeout" -> FALSE
      [] OTHER -> flag

\* if (this.connected) return;
ConnectReturnsEarly(flag) == flag

ConnInit ==
    /\ ConnStart
    /\ SessionParked
    /\ PairParked
    /\ ExecStart

ConnRest == UNCHANGED << sessionVars, pairVars, execVars >>

\* connect()
Connect ==
    /\ connectCalls < MaxCalls
    /\ connectCalls' = connectCalls + 1
    /\ connectAttempts' = IF ConnectReturnsEarly(connected)
                          THEN connectAttempts
                          ELSE connectAttempts + 1
    /\ UNCHANGED << connected, clientEvents >>
    /\ ConnRest

\* The client, once client.connect() has been called, emits an event.
ClientEvent(event) ==
    /\ connectAttempts > 0
    /\ Len(clientEvents) < MaxEvents
    /\ clientEvents' = Append(clientEvents, event)
    /\ connected' = ConnectedAfter(connected, event)
    /\ UNCHANGED << connectCalls, connectAttempts >>
    /\ ConnRest

ConnNext ==
    \/ Connect
    \/ \E event \in ClientEventNames : ClientEvent(event)

ConnSpec == ConnInit /\ [][ConnNext]_vars

\* ----------------------------------------------------------------- claims

Unread == UnreadBuffer(buffer, offset)

\* C1: when the transport closes, abort() is never called and every buffered
\* byte has been consumed, the close handler emits completed exactly once.
C1_GracefulCompletion ==
    (/\ IsController
     /\ closePc = "finished"
     /\ aborts = 0
     /\ UnreadBytes(buffer, offset) = 0)
        => completed = 1

\* C2: whenever done is true, exactly one of completed / cancelled has been
\* emitted in the session.
C2_ExactlyOneTerminalEvent ==
    (IsController /\ done) => (completed + cancelled = 1)

\* C3: over any sequence of chunks, ticks, the close notification and any
\* number of abort() calls, completed plus cancelled emissions are at most one.
C3_AtMostOneTerminalEvent ==
    IsController => (completed + cancelled <= 1)

\* C4: abort() called while the close handler is suspended in its wait loop
\* emits cancelled, completed is never emitted once cancelled has been, and
\* the wait loop leaves at the first sleep that returns after the abort.
C4_CancellationWinsRace ==
    [][ IsController =>
          /\ (closePc = "waiting" /\ aborts = 0 /\ aborts' = 1)
                => (cancelled' = 1 /\ completed' = 0)
          /\ (cancelled > 0) => (completed' = 0)
          /\ (closePc = "waiting" /\ timer = "destroyed" /\ polls' = polls + 1)
                => (closePc' = "finished" /\ completed' = 0) ]_vars

\* The close handler slept at least once, abort() then ended the wait: the
\* handler finished with bytes still unread and cancelled emitted.
C4_Witness ==
    /\ IsController
    /\ closePc = "finished"
    /\ polls > 0
    /\ UnreadBytes(buffer, offset) > 0
    /\ cancelled = 1
    /\ completed = 0

\* C5: an abort() call on a controller that is not done and whose timer is
\* not destroyed emits cancelled once itself, and when it returns done is
\* true, the timer is destroyed and stream.destroy() has been called.
C5_AbortWhileActive ==
    [][ IsController =>
          /\ (aborts' = aborts + 1 /\ ~done /\ timer # "destroyed")
                => (cancelled' = cancelled + 1 /\ abortDepth' = abortDepth + 1)
          /\ (abortDepth' < abortDepth)
                => /\ cancelled' = cancelled
                   /\ done'
                   /\ timer' = "destroyed"
                   /\ destroyCalls' = destroyCalls + 1 ]_vars

\* abort() called from inside a data listener has returned.
C5_Witness ==
    /\ IsController
    /\ tickPc = "listener"
    /\ abortDepth = 0
    /\ cancelled = 1
    /\ done
    /\ timer = "destroyed"
    /\ destroyCalls = 1

\* The records of a byte sequence that joins them with the separator between
\* them (no separator inside a record).
RECURSIVE SplitRecords(_, _)
SplitRecords(bytes, sep) ==
    LET d == IndexOf(bytes, sep)
    IN IF d < 0
       THEN << bytes >>
       ELSE << SubSeq(bytes, 1, d) >>
                \o SplitRecords(SubSeq(bytes, d + Len(sep) + 1, Len(bytes)), sep)

\* C6: N records joined with the separator between them, delivered and
\* followed by a tick with no abort, give exactly those N data events in order.
C6_RecordFraming ==
    (/\ IsController
     /\ aborts = 0
     /\ Len(received) > 0
     /\ drained
     /\ tickPc = "idle")
        => emitted = SplitRecords(received, separator)

\* C7: however the input is split into chunks and interleaved with ticks, once
\* every chunk is delivered and a tick has run afterwards the data payloads
\* are those of the same input delivered as one chunk.
C7_ChunkIndependence ==
    (/\ IsController
     /\ aborts = 0
     /\ drained
     /\ tickPc = "idle")
        => emitted = OneChunkOutput(received, separator)

\* The default separator arrived split across two chunks (CR, then LF) and the
\* record before it has been emitted.
C7_Witness ==
    /\ IsController
    /\ aborts = 0
    /\ drained
    /\ tickPc = "idle"
    /\ separator = DefaultSeparator
    /\ received = << 97, 13, 10 >>
    /\ lastChunk = << 10 >>
    /\ emitted = << << 97 >> >>

\* The transport has closed with unread bytes that hold no separator.
C8_ClosedWithPartialRecord ==
    /\ IsController
    /\ closePc = "waiting"
    /\ UnreadBytes(buffer, offset) > 0
    /\ Delimiter(buffer, offset, separator) < 0

\* C8: when the transport closes with unread bytes that hold no separator and
\* abort() is never called, completed is not emitted while they are unread,
\* and cleanup eventually runs.
C8_DrainBeforeCompletion ==
    /\ [](C8_ClosedWithPartialRecord => completed = 0)
    /\ (C8_ClosedWithPartialRecord
            ~> (done /\ timer = "destroyed" /\ destroyCalls > 0))

\* C9: an empty separator makes construction fail before the timer exists,
\* before a listener is attached and before the transport is piped, and no
\* event is ever emitted; an omitted separator defaults to CR LF.
C9_EmptySeparatorRejected ==
    /\ (ctor # "pending" /\ optSeparator.given /\ optSeparator.value = <<>>)
          => ctor = "threw"
    /\ (ctor = "threw")
          => /\ timer = "none"
             /\ ~attached
             /\ ~piped
             /\ buffer = <<>>
             /\ emitted = <<>>
             /\ completed = 0
             /\ cancelled = 0
    /\ (ctor # "pending" /\ ~optSeparator.given)
          => (ctor # "threw" /\ separator = DefaultSeparator)

\* The constructor has thrown on an empty separator.
C9_Witness ==
    /\ IsController
    /\ ctor = "threw"
    /\ optSeparator.given
    /\ optSeparator.value = <<>>

\* C10: once cleanup has run no data event is emitted again.
C10_NoDataAfterTermination ==
    [][ (IsController /\ done) => (emitted' = emitted) ]_vars

\* abort() called from inside a data listener has returned and a complete
\* record is still buffered behind the separator being processed.
C10_Witness ==
    /\ IsController
    /\ tickPc = "listener"
    /\ abortDepth = 0
    /\ done
    /\ Delimiter(buffer, ReaderSkip(offset, Len(separator)), separator) >= 0

\* C11: abort() called when done is already true emits no event and leaves
\* done, the timer, the reader and the transport untouched.
C11_AbortAfterDoneIsNoOp ==
    [][ (IsController /\ done /\ aborts' = aborts + 1)
          => /\ cancelled' = cancelled
             /\ completed' = completed
             /\ emitted' = emitted
             /\ done' = done
             /\ timer' = timer
             /\ buffer' = buffer
             /\ offset' = offset
             /\ destroyCalls' = destroyCalls ]_vars

\* C11 as the code has it: such a call emits no event and leaves done, the
\* timer and the reader unchanged, but runs cleanup() again, which calls
\* stream.destroy() once more.
C11_AbortAfterDoneDestroysAgain ==
    [][ (IsController /\ done /\ aborts' = aborts + 1)
          => /\ cancelled' = cancelled
             /\ completed' = completed
             /\ emitted' = emitted
             /\ done' = done
             /\ timer' = timer
             /\ buffer' = buffer
             /\ offset' = offset
             /\ abortDepth' = abortDepth
             /\ destroyCalls' = destroyCalls + 1 ]_vars

\* abort() has been called twice, one call after the other: one cancelled
\* event, two stream.destroy() calls.
C11_Witness ==
    /\ IsController
    /\ Idle
    /\ done
    /\ aborts = 2
    /\ cancelled = 1
    /\ destroyCalls = 2

\* The records, each followed by one separator.
RECURSIVE JoinTerminated(_, _)
JoinTerminated(records, sep) ==
    IF records = << >>
    THEN << >>
    ELSE Head(records) \o sep \o JoinTerminated(Tail(records), sep)

\* C12: between callbacks, the emitted payloads, each followed by one
\* separator, followed by the unread bytes are the bytes received so far, and
\* no emitted payload contains the separator.
C12_StreamReconstruction ==
    (IsController /\ ctor = "constructed" /\ Idle)
        => /\ JoinTerminated(emitted, separator) \o Unread = received
           /\ \A i \in 1..Len(emitted) : IndexOf(emitted[i], separator) < 0

\* Records emitted by more than one tick, with a partial record unread.
C12_Witness ==
    /\ IsController
    /\ Idle
    /\ Len(emitted) >= 2
    /\ passEmits = 1
    /\ UnreadBytes(buffer, offset) > 0

\* C14: a destroyed timer stays destroyed (the timer.start() that ends the
\* tick handler does not re-arm it) and no tick handler starts after it.
C14_DestroyedTimerStaysOff ==
    [][ (IsController /\ timer = "destroyed")
          => /\ timer' = "destroyed"
             /\ ~(tickPc = "idle" /\ tickPc' # "idle") ]_vars

\* A tick handler has ended though a complete record is still unread: its
\* loop was left because abort() destroyed the timer from a data listener.
C14_Witness ==
    /\ IsController
    /\ tickPc = "idle"
    /\ drained
    /\ timer = "destroyed"
    /\ passEmits > 0
    /\ Delimiter(buffer, offset, separator) >= 0

\* C15: done is false before construction, becomes true only together with
\* cleanup's timer.destroy() and stream.destroy(), and never returns to
\* false; done is true exactly when the timer is destroyed.
C15_LifecycleFlags ==
    /\ [](IsController =>
            /\ (ctor = "pending" => ~done)
            /\ (done <=> timer = "destroyed")
            /\ (done => destroyCalls > 0))
    /\ [][ IsController =>
            /\ (done => done')
            /\ (~done /\ done')
                  => (timer' = "destroyed"
                        /\ destroyCalls' = destroyCalls + 1) ]_vars

\* The close path has finished without any abort().
C15_Witness ==
    /\ IsController
    /\ Idle
    /\ closePc = "finished"
    /\ aborts = 0
    /\ done
    /\ timer = "destroyed"
    /\ destroyCalls = 1

\* C16: a tick that finds no complete separator in the unread bytes emits
\* nothing and leaves the reader and done unchanged; a payload is emitted
\* only when the unread bytes hold a separator.
C16_PartialRecordsWait ==
    [][ IsController =>
          /\ (tickPc = "idle" /\ tickPc' = "loop"
                /\ IndexOf(Unread, separator) < 0)
                => (delimiter' < 0 /\ emitted' = emitted
                      /\ buffer' = buffer /\ offset' = offset
                      /\ done' = done)
          /\ (tickPc = "loop" /\ delimiter < 0)
                => (tickPc' = "idle" /\ emitted' = emitted
                      /\ buffer' = buffer /\ offset' = offset
                      /\ done' = done)
          /\ (emitted' # emitted)
                => (tickPc = "loop" /\ IndexOf(Unread, separator) >= 0) ]_vars

\* A tick has run over a partial record: nothing emitted, bytes still unread.
C16_Witness ==
    /\ IsController
    /\ tickPc = "idle"
    /\ drained
    /\ ~done
    /\ emitted = << >>
    /\ UnreadBytes(buffer, offset) > 0
    /\ passBudget = 0

\* k copies of sep.
RECURSIVE Repeat(_, _)
Repeat(sep, k) == IF k = 0 THEN << >> ELSE sep \o Repeat(sep, k - 1)

\* C17: unread bytes that start with a separator give a data event with an
\* empty payload and the cursor moves past exactly one separator; a record
\* followed by k separators gives the record and k-1 empty payloads.
C17_ZeroLengthRecords ==
    /\ [][ IsController =>
            /\ (tickPc = "loop" /\ tickPc' = "listener"
                  /\ IndexOf(Unread, separator) = 0)
                  => (emitted' = Append(emitted, << >>) /\ offset' = offset)
            /\ (tickPc = "listener" /\ tickPc' = "loop")
                  => offset' = offset + Len(separator) ]_vars
    /\ [](\A k \in 1..MaxInput :
            (/\ IsController
             /\ aborts = 0
             /\ drained
             /\ tickPc = "idle"
             /\ received = << 97 >> \o Repeat(separator, k))
                => /\ Len(emitted) = k
                   /\ emitted[1] = << 97 >>
                   /\ \A i \in 2..k : emitted[i] = << >>)

\* A record followed by three one-byte separators: the record, then two
\* empty payloads.
C17_Witness ==
    /\ IsController
    /\ aborts = 0
    /\ drained
    /\ tickPc = "idle"
    /\ received = << 97, 10, 10, 10 >>
    /\ emitted = << << 97 >>, << >>, << >> >>

\* C18: while a tick handler runs (its data listeners included) the timer is
\* not armed, and a tick handler starts only when none is running.
C18_NoOverlappingDrainPasses ==
    /\ []((IsController /\ tickPc # "idle") => timer # "armed")
    /\ [][ (IsController /\ tickPc = "idle" /\ tickPc' # "idle")
              => (timer = "armed" /\ timer' # "armed" /\ abortDepth = 0) ]_vars

\* A data listener is running and the timer is paused.
C18_Witness ==
    /\ IsController
    /\ tickPc = "listener"
    /\ timer = "paused"
    /\ ~done

\* C19: abort() called from inside a cancelled listener emits no further
\* cancelled event.
C19_ReentrantAbort ==
    [][ (IsController /\ abortDepth > 0 /\ aborts' = aborts + 1)
          => cancelled' = cancelled ]_vars

\* C20: every loop iteration of the tick handler moves the read cursor
\* forward by at least one byte within the buffer, and a tick emits at most
\* as many data events as separators were unread when it began.
C20_DrainPassTerminates ==
    /\ [](IsController => passEmits <= passBudget)
    /\ [][ IsController =>
            /\ (tickPc = "loop" /\ tickPc' = "listener") => offset' >= offset
            /\ (tickPc = "listener" /\ tickPc' = "loop")
                  => (offset' > offset /\ offset' <= Len(buffer)) ]_vars

\* A tick has emitted two records and returned.
C20_Witness ==
    /\ IsController
    /\ tickPc = "idle"
    /\ drained
    /\ passEmits = 2
    /\ passBudget = 2

\* The event names of SSH.stream and the StreamController events they are
\* claimed to stand for.
ControllerName(name) ==
    CASE name = "stream" -> "data"
      [] name = "stream_complete" -> "completed"
      [] name = "stream_cancelled" -> "cancelled"

AsControllerEvents(log) ==
    [i \in 1..Len(log) |->
        Event(ControllerName(log[i].name), log[i].payload)]

\* C21: fed the same chunk deliveries, ticks, close notification and abort
\* requests, SSH.stream has emitted stream / stream_complete /
\* stream_cancelled exactly where StreamController has emitted data /
\* completed / cancelled: same payloads, same order, same terminal event.
C21_LegacyEquivalence == AsControllerEvents(leg.events) = ctl.events

\* The data events alone do agree.
DataOnly(log) == SelectSeq(log, LAMBDA e : e.name = "data")

C21_SameData == DataOnly(AsControllerEvents(leg.events)) = DataOnly(ctl.events)

\* C22: the promise of SSH.exec is settled exactly once: not before the
\* callback's error or the channel's close; rejected with the callback's error
\* when the command could not be started; rejected with an error when the
\* channel closes with a non-zero exit code; otherwise resolved with exactly
\* the bytes the channel delivered before the close, in order.
C22_ExecOutcome ==
    /\ execSettles <= 1
    /\ (execPc \in {"idle", "started", "open"})
          => (execSettles = 0 /\ execOutcome = Pending)
    /\ (execPc = "failed")
          => /\ execSettles = 1
             /\ execError # "none"
             /\ execOutcome = Rejected(execError)
    /\ (execPc = "closed" /\ execCode # 0)
          => /\ execSettles = 1
             /\ execOutcome.kind = "rejected"
             /\ execOutcome.error = ExitError
    /\ (execPc = "closed" /\ execCode = 0)
          => /\ execSettles = 1
             /\ execOutcome = Resolved(execSent)

\* The channel delivered several chunks and closed with exit code 0: the
\* promise is resolved with all of them.
C22_Witness ==
    /\ execPc = "closed"
    /\ execCode = 0
    /\ Len(execSent) > MaxChunk
    /\ execOutcome.kind = "resolved"
    /\ execOutcome.bytes = execSent

\* A ready event has occurred and no close, end or timeout after it.
ReadySinceDrop ==
    LET flagEvents == SelectSeq(clientEvents,
                        LAMBDA e : e \in {"ready", "close", "end", "timeout"})
    IN /\ flagEvents # <<>>
       /\ flagEvents[Len(flagEvents)] = "ready"

\* C23: after any sequence of client lifecycle events, connected is true
\* exactly when a ready event has occurred with no close, end or timeout after
\* it; and a connect() call made while connected is true starts no connection
\* attempt.
C23_ConnectionFlag ==
    /\ [](connected <=> ReadySinceDrop)
    /\ [][ (connected /\ connectCalls' = connectCalls + 1)
              => connectAttempts' = connectAttempts ]_vars

\* The connection dropped and came back, and a connect() call made while
\* connected started no attempt.
C23_Witness ==
    /\ connected
    /\ \E i \in 1..Len(clientEvents) :
          clientEvents[i] \in {"close", "end", "timeout"}
    /\ connectCalls > connectAttempts

====
